---- MODULE Spec2Model ----
(***************************************************************************)
(* Model of the call-handling backend: the Vapi event webhook              *)
(* (api/vapi-webhook.js) over the Supabase store (lib/supabase.js and the  *)
(* schema of supabase/migrations/001_initial_schema.sql), the Cal.com       *)
(* helpers (lib/calcom.js, as DEPLOYMENT.md gives it), the booking and the  *)
(* availability endpoints (api/calcom/book.js, api/calcom/availability.js), *)
(* and the daily digest cron endpoint (api/cron/daily-digest.js).          *)
(*                                                                         *)
(* Store rows are functions from column names to values.  SQL NULL is      *)
(* NullT in a text column and NullN in a number or timestamp column; a key *)
(* that JSON.stringify drops (a JS undefined) is a key missing from the    *)
(* payload's DOMAIN.  Timestamps are integers.                             *)
(***************************************************************************)
EXTENDS Integers, Sequences, FiniteSets, TLC

VARIABLES
    calls,                \* table calls: vapi_call_id -> row (DOMAIN = the rows that exist)
    call_transcripts,     \* table call_transcripts: set of rows
    bookings,             \* table bookings: set of rows
    appointments,         \* appointments created at the scheduling provider (a count)
    calcomLog,            \* the requests the last handled request sent to Cal.com
    transcriptSequences,  \* per process: the Map of vapi-webhook.js line 27
    handlers,             \* transcript handlers suspended at an await, per slot
    res,                  \* the last HTTP response of the webhook
    lastReport,           \* history: per call, the end-of-call report stored last, once per
                          \* time it was stored (twice at most), while nothing else is written
    now,                  \* the wall clock, minutes since the start of the horizon (UTC)
    businesses,           \* table businesses: id -> row
    season,               \* which stretch of the calendar the horizon covers
    hourCycle,            \* what Intl prints for the hour of local midnight: 0 or 24
    digestLog,            \* history: per business, the instants of the digest emails sent
                          \* on its current local day
    tickLog,              \* the response of the last digest request
    invocations,          \* digest requests past their query of businesses, per slot:
                          \* the last_digest_sent_at values they loaded
    digestStats           \* the calls a digest's query returned, and the statistics
                          \* buildCallStats made of them

webhookVars == <<calls, call_transcripts, bookings, appointments, calcomLog,
                 transcriptSequences, handlers, res, lastReport>>
digestVars  == <<now, businesses, season, hourCycle, digestLog, tickLog, invocations,
                 digestStats>>
scheduleVars == <<now, season, hourCycle, digestLog, tickLog, invocations, digestStats>>
vars == <<calls, call_transcripts, bookings, appointments, calcomLog,
          transcriptSequences, handlers, res, lastReport, now, businesses, season,
          hourCycle, digestLog, tickLog, invocations, digestStats>>

----------------------------------------------------------------------------
(* Values *)

NullT == "null"
NullN == -1
Undef == "undefined"
UndefN == -2

Terminal    == {"completed", "failed", "busy", "no-answer"}
NonTerminal == {"queued", "ringing", "in-progress"}
StatusCheck == NonTerminal \cup Terminal
SentimentCheck == {"positive", "neutral", "negative"}

BusinessIds == {"b1", "b2"}
NoBusiness  == "none"

\* the dialed numbers of the model: one per business, and one that maps to none
PhoneOf == [b \in BusinessIds |-> IF b = "b1" THEN "+15551234567" ELSE "+15557654321"]
UnmappedPhone == "+15550000000"
Phones == {PhoneOf[b] : b \in BusinessIds} \cup {UnmappedPhone}

CustomerNumber == "+15559990000"

----------------------------------------------------------------------------
(* lib/supabase.js over the schema *)

\* a lookup without .eq('active', true)
getBusinessByPhoneAnyStatus(phone, storeOk) ==
    LET hit == {b \in BusinessIds : PhoneOf[b] = phone}
    IN  IF storeOk /\ hit # {} THEN CHOOSE b \in hit : TRUE ELSE NoBusiness

\* getBusinessByPhone: the active business of a dialed number, or NoBusiness
\* (also when the query errors: the function logs and returns null).
getBusinessByPhone(phone, storeOk) ==
    LET hit == {b \in BusinessIds : PhoneOf[b] = phone /\ businesses[b].active}
    IN  IF storeOk /\ hit # {} THEN CHOOSE b \in hit : TRUE ELSE NoBusiness

CallColumns ==
    {"business_id", "customer_phone", "from_phone", "to_phone", "status",
     "direction", "started_at", "ended_at", "duration_seconds", "ended_reason",
     "recording_url", "full_transcript", "summary", "sentiment", "intent",
     "metadata"}

\* the column defaults of table calls
CallDefaults ==
    [business_id |-> NullT, customer_phone |-> NullT, from_phone |-> NullT,
     to_phone |-> NullT, status |-> "queued", direction |-> "inbound",
     started_at |-> NullN, ended_at |-> NullN, duration_seconds |-> NullN,
     ended_reason |-> NullT, recording_url |-> NullT, full_transcript |-> NullT,
     summary |-> NullT, sentiment |-> NullT, intent |-> NullT, metadata |-> "{}"]

\* NOT NULL and CHECK constraints of table calls
CallConstraints(row) ==
    /\ row.business_id # NullT
    /\ row.customer_phone # NullT
    /\ row.from_phone # NullT
    /\ row.to_phone # NullT
    /\ row.status \in StatusCheck
    /\ row.direction \in {"inbound", "outbound"}
    /\ row.sentiment \in SentimentCheck \cup {NullT}
    /\ (row.ended_at = NullN \/ row.started_at = NullN \/ row.ended_at >= row.started_at)

\* a conflict clause that adds the incoming duration to the stored one
MergeRowAccumulating(old, payload) ==
    [col \in CallColumns |->
        IF col \notin DOMAIN payload THEN old[col]
        ELSE IF col = "duration_seconds" /\ old[col] # NullN /\ payload[col] # NullN
        THEN old[col] + payload[col]
        ELSE payload[col]]

\* INSERT ... ON CONFLICT (vapi_call_id) DO UPDATE SET col = EXCLUDED.col, for
\* exactly the columns the payload names; a column the payload names with null
\* is set to null.
MergeRow(old, payload) ==
    [col \in CallColumns |-> IF col \in DOMAIN payload THEN payload[col] ELSE old[col]]

\* the row the upsert proposes to insert, and the row it leaves
ProposedRow(payload) == MergeRow(CallDefaults, payload)

UpsertOk(table, id, payload, storeOk) ==
    /\ storeOk
    /\ CallConstraints(ProposedRow(payload))
    /\ id \in DOMAIN table => CallConstraints(MergeRow(table[id], payload))

\* an UPDATE in place of the upsert: a call seen for the first time gets no row
upsertCallUpdateOnly(table, id, payload, storeOk) ==
    IF ~UpsertOk(table, id, payload, storeOk) \/ id \notin DOMAIN table THEN table
    ELSE [table EXCEPT ![id] = MergeRow(table[id], payload)]

\* upsertCall: the table after the call (unchanged when it throws)
upsertCall(table, id, payload, storeOk) ==
    IF ~UpsertOk(table, id, payload, storeOk) THEN table
    ELSE [c \in DOMAIN table \cup {id} |->
            IF c # id THEN table[c]
            ELSE IF id \in DOMAIN table THEN MergeRow(table[id], payload)
                 ELSE ProposedRow(payload)]

\* insertTranscript: uniq_call_transcripts_sequence rejects a second row with the
\* same (call_id, sequence_number); text is NOT NULL.
InsertTranscriptOk(table, callId, text, sequenceNumber, storeOk) ==
    /\ storeOk
    /\ text # Undef
    /\ ~\E t \in table : t.call_id = callId /\ t.sequence_number = sequenceNumber

insertTranscript(table, callId, role, text, sequenceNumber, storeOk) ==
    IF InsertTranscriptOk(table, callId, text, sequenceNumber, storeOk)
    THEN table \cup {[call_id |-> callId, role |-> role, text |-> text,
                      sequence_number |-> sequenceNumber]}
    ELSE table

\* createBooking (the insert): uniq_booking_per_call allows one row per call_id
\* that is not null
CreateBookingOk(table, callId, storeOk) ==
    storeOk /\ (callId = NullT \/ ~\E b \in table : b.call_id = callId)

\* an insert that writes no row and reports no error
createBookingDropped(table, bookingData, storeOk) == table

createBooking(table, bookingData, storeOk) ==
    IF CreateBookingOk(table, bookingData.call_id, storeOk)
    THEN table \cup {bookingData} ELSE table

\* getCalcomCredentials: the calcom_* columns of the business row, or null
NoCredentials == [none |-> TRUE]
getCalcomCredentials(businessId, storeOk) ==
    IF storeOk
    THEN [calcom_access_token |-> businesses[businessId].calcom_access_token,
          calcom_refresh_token |-> businesses[businessId].calcom_refresh_token,
          calcom_token_expires_at |-> businesses[businessId].calcom_token_expires_at,
          calcom_event_type_id |-> businesses[businessId].calcom_event_type_id]
    ELSE NoCredentials

\* updateCalcomCredentials: the four columns are written, the event type from
\* credentials.event_type_id || null
updateCalcomCredentials(row, credentials) ==
    [row EXCEPT !.calcom_access_token = credentials.access_token,
                !.calcom_refresh_token = credentials.refresh_token,
                !.calcom_token_expires_at = credentials.expires_at,
                !.calcom_event_type_id = IF "event_type_id" \in DOMAIN credentials
                                         THEN credentials.event_type_id ELSE NullN]

----------------------------------------------------------------------------
(* lib/calcom.js, as DEPLOYMENT.md gives it.  A call ends with Cal.com's     *)
(* answer to the request it sent, or with the error it threw before sending. *)

BookingsEndpoint == "POST /bookings"
CancelEndpoint   == "DELETE /bookings"

\* Cal.com's answers: a success, a success without slots, 409, 400, and a
\* failure of the provider or of the network
CalcomAnswers == {"ok", "empty", "conflict", "invalid", "unavailable"}
\* the errors thrown before a request is sent
NotRequested  == {"typeError", "noEventType", "notConnected", "refreshRejected"}

RefreshMargin == 5           \* minutes before its expiry a token is refreshed
ExpiresIn == 60              \* expires_in of a token response, in minutes

\* refreshAccessToken: the token response for a refresh token the OAuth endpoint
\* accepts; for any other it rethrows the 400 of the endpoint
RefreshRejected == [rejected |-> TRUE]
refreshAccessToken(refreshToken) ==
    IF refreshToken = "refresh"
    THEN [access_token |-> "token", refresh_token |-> "refresh",
          expires_at |-> now + ExpiresIn]
    ELSE RefreshRejected

\* expiresAt < fiveMinutesFromNow; new Date(null) is the epoch
TokenExpiring(credentials) ==
    credentials.calcom_token_expires_at < now + RefreshMargin

\* getValidAccessToken: the access token, NullT where it throws 'Business not
\* connected to Cal.com', "rejected" where the refresh throws
getValidAccessToken(businessId, storeOk) ==
    LET credentials == getCalcomCredentials(businessId, storeOk)
    IN  IF credentials = NoCredentials THEN NullT
        ELSE IF credentials.calcom_access_token = NullT THEN NullT
        ELSE IF ~TokenExpiring(credentials) THEN credentials.calcom_access_token
        ELSE IF refreshAccessToken(credentials.calcom_refresh_token) = RefreshRejected
        THEN "rejected"
        ELSE refreshAccessToken(credentials.calcom_refresh_token).access_token

calcomApiRequest(businessId, storeOk, answer) ==
    LET accessToken == getValidAccessToken(businessId, storeOk)
    IN  IF accessToken = NullT THEN "notConnected"
        ELSE IF accessToken = "rejected" THEN "refreshRejected"
        ELSE answer

\* table businesses after a call of lib/calcom that ended with outcome: the
\* refreshed credentials are stored before the request is sent
CredentialsAfter(businessId, storeOk, outcome) ==
    LET credentials == getCalcomCredentials(businessId, storeOk)
    IN  IF outcome \in NotRequested \/ ~TokenExpiring(credentials) THEN businesses
        ELSE [businesses EXCEPT ![businessId] =
                 updateCalcomCredentials(@, refreshAccessToken(credentials.calcom_refresh_token))]

\* checkAvailability: credentials.calcom_event_type_id of a null credentials
\* is a TypeError
checkAvailability(businessId, storeOk, answer) ==
    LET credentials == getCalcomCredentials(businessId, storeOk)
    IN  IF credentials = NoCredentials THEN "typeError"
        ELSE IF credentials.calcom_event_type_id = NullN THEN "noEventType"
        ELSE calcomApiRequest(businessId, storeOk, answer)

createCalcomBooking(businessId, storeOk, answer) ==
    LET credentials == getCalcomCredentials(businessId, storeOk)
    IN  IF credentials = NoCredentials THEN "typeError"
        ELSE IF credentials.calcom_event_type_id = NullN THEN "noEventType"
        ELSE calcomApiRequest(businessId, storeOk, answer)

cancelBooking(businessId, storeOk, answer) == calcomApiRequest(businessId, storeOk, answer)

\* the entry a call leaves in calcomLog
CalcomRequests(request, arg, outcome) ==
    IF outcome \in NotRequested THEN {}
    ELSE {[request |-> request, arg |-> arg, answer |-> outcome]}

----------------------------------------------------------------------------
(* api/vapi-webhook.js: helpers *)

\* mapVapiStatus: statusMap[vapiStatus] || vapiStatus
mapVapiStatus(vapiStatus) ==
    CASE vapiStatus = "queued"      -> "queued"
      [] vapiStatus = "ringing"     -> "ringing"
      [] vapiStatus = "in-progress" -> "in-progress"
      [] vapiStatus = "forwarding"  -> "in-progress"
      [] vapiStatus = "ended"       -> "completed"
      [] OTHER                      -> vapiStatus

\* The texts of the model and the keywords of extractIntent each contains
\* (text.includes); a missing text contributes none.
TextBook  == "I would like to book a cleaning"
TextHow   == "how late are you open"
TextPlain == "thanks, bye"
Words(text) ==
    CASE text = TextBook -> {"book"}
      [] text = TextHow  -> {"how"}
      [] OTHER           -> {}

\* extractIntent: keyword matching over summary and transcript, first match wins
extractIntent(summary, transcript) ==
    LET text == Words(summary) \cup Words(transcript)
    IN  IF text \cap {"appointment", "schedule", "book"} # {} THEN "booking"
        ELSE IF text \cap {"question", "information", "how"} # {} THEN "inquiry"
        ELSE IF text \cap {"problem", "issue", "complaint"} # {} THEN "complaint"
        ELSE IF text \cap {"cancel", "reschedule"} # {} THEN "modification"
        ELSE "general"

\* a key whose JS value is undefined is dropped from the JSON body
Opt(key, value, absent) == IF value = absent THEN <<>> ELSE key :> value

\* the columns every handler sends: business, provider id aside, the three phones
\*   customer_phone: call?.customer?.number
\*   from_phone: call?.customer?.number || 'unknown'
\*   to_phone: call?.phoneNumber?.number || 'unknown'
BasePayload(business, e) ==
    [business_id |-> business,
     from_phone  |-> IF e.customer THEN CustomerNumber ELSE "unknown",
     to_phone    |-> e.phone]
    @@ Opt("customer_phone", IF e.customer THEN CustomerNumber ELSE Undef, Undef)

\* x ? new Date(x).toISOString() : null
IsoOrNull(t) == IF t = UndefN \/ t = 0 THEN NullN ELSE t

AssistantPayload(business, e) ==
    BasePayload(business, e)
    @@ [status |-> "queued", direction |-> "inbound", metadata |-> "vapi_call"]

StatusPayload(business, e) ==
    BasePayload(business, e)
    @@ [status |-> mapVapiStatus(e.status),
        started_at |-> IsoOrNull(e.startedAt),
        metadata |-> "vapi_status"]

TranscriptPayload(business, e) == BasePayload(business, e)

ReportPayload(business, e) ==
    BasePayload(business, e)
    @@ [status |-> "completed",
        started_at |-> IsoOrNull(e.startedAt),
        ended_at |-> IsoOrNull(e.endedAt),
        duration_seconds |-> IF e.duration = UndefN \/ e.duration = 0
                             THEN NullN ELSE e.duration,
        sentiment |-> IF e.sentiment = Undef THEN NullT ELSE e.sentiment,
        intent |-> IF e.intent # Undef THEN e.intent
                   ELSE extractIntent(e.summary, e.transcript),
        metadata |-> "vapi_analysis"]
    @@ Opt("ended_reason", e.endedReason, Undef)
    @@ Opt("recording_url", e.recordingUrl, Undef)
    @@ Opt("full_transcript", e.transcript, Undef)
    @@ Opt("summary", e.summary, Undef)

----------------------------------------------------------------------------
(* The events the provider delivers *)

CallIds == {"c1"}
Procs   == {"p1", "p2"}      \* the processes (serverless instances) serving the webhook

MaxSeq == 2                  \* cap of a process's per-call counter
MaxHandlers == 2             \* transcript handlers in flight at a time
MaxAppointments == 2         \* cap of the provider's appointment count

\* message.call of an event: the call id, the dialed number, whether the
\* customer's number is given
Envelopes(phones, customers) == [callId : CallIds, phone : phones, customer : customers]

VapiStatuses == {"queued", "ringing", "in-progress", "forwarding", "ended", "scheduled"}
StatusUpdates(E, statuses) ==
    {e @@ [status |-> s, startedAt |-> t] : e \in E, s \in statuses, t \in {UndefN, 1}}

NonString == "[object Object]"   \* a transcript field that is not a string
Transcripts(E, roles, texts) ==
    {e @@ [role |-> r, transcript |-> t] : e \in E, r \in roles, t \in texts}

\* the bodies of the end-of-call reports of the model
FullReport ==
    [startedAt |-> 1, endedAt |-> 2, duration |-> 60, endedReason |-> "customer-ended-call",
     recordingUrl |-> "https://rec.example/1", summary |-> TextBook, transcript |-> TextHow,
     sentiment |-> "positive", intent |-> Undef]
SparseReport ==
    [startedAt |-> UndefN, endedAt |-> 2, duration |-> 0, endedReason |-> Undef,
     recordingUrl |-> Undef, summary |-> Undef, transcript |-> Undef,
     sentiment |-> Undef, intent |-> Undef]
BadReport ==
    [startedAt |-> 3, endedAt |-> 2, duration |-> 60, endedReason |-> "assistant-error",
     recordingUrl |-> Undef, summary |-> TextPlain, transcript |-> TextPlain,
     sentiment |-> "mixed", intent |-> "pricing"]
Reports(E, bodies) == {e @@ b : e \in E, b \in bodies}

\* parameters.dateTime of createBooking and start of a booking request, by how
\* new Date() reads it
StartTimes == {"future", "past", "malformed"}

FunctionNames == {"checkAvailability", "createBooking", "transferCall"}
FunctionCalls(E, names, times) ==
    {e @@ [functionCall |-> f, dateTime |-> t] : e \in E, f \in names, t \in times}

----------------------------------------------------------------------------
(* api/vapi-webhook.js: the handlers *)

\* a handler slot; received is the place of the request, in the order of
\* receipt, among the requests whose handlers are suspended
Idle == [pc |-> "idle", proc |-> "p1", callId |-> "c1", role |-> "user",
         text |-> Undef, seq |-> 0, received |-> 0]

\* res.status(status).json(body); a body is a record of the keys it carries
Json(status, body) == [status |-> status, body |-> body]

Received == [received |-> "true"]
\* module.exports, lines 72-77: what the router's catch answers
InternalServerError == [error |-> "Internal server error", message |-> "TypeError"]

Quiet == \A h \in DOMAIN handlers : handlers[h].pc = "idle"

\* module.exports, line 36: a request that is not a POST
MethodNotAllowed ==
    /\ res' = Json(405, [error |-> "Method not allowed"])
    /\ UNCHANGED <<calls, call_transcripts, bookings, appointments,
                   transcriptSequences, handlers, lastReport>>
    /\ calcomLog' = {}
    /\ UNCHANGED digestVars

\* module.exports, lines 41-42 and 72-77: a POST without a JSON body; event is
\* undefined and event.message throws inside the try
EmptyBody ==
    /\ res' = Json(500, InternalServerError)
    /\ UNCHANGED <<calls, call_transcripts, bookings, appointments,
                   transcriptSequences, handlers, lastReport>>
    /\ calcomLog' = {}
    /\ UNCHANGED digestVars

\* module.exports, lines 67-69: a type the switch does not name (or no message)
UnknownEvent ==
    /\ res' = Json(200, Received)
    /\ UNCHANGED <<calls, call_transcripts, bookings, appointments,
                   transcriptSequences, handlers, lastReport>>
    /\ calcomLog' = {}
    /\ UNCHANGED digestVars

\* hasCalcom: calcomIntegration && calcomIntegration.access_token
hasCalcom(calcomIntegration) ==
    /\ calcomIntegration # NoCredentials
    /\ "access_token" \in DOMAIN calcomIntegration
    /\ calcomIntegration["access_token"] # NullT

\* lastReport after an upsert of call id: the stored report is no longer the
\* last thing written to the row
Forget(id, table) ==
    IF table = calls THEN lastReport ELSE [lastReport EXCEPT ![id] = <<>>]

handleAssistantRequest(e, lookupOk, upsertOk, credOk) ==
    LET business == getBusinessByPhone(e.phone, lookupOk)
        payload  == AssistantPayload(business, e)
        table    == upsertCall(calls, e.callId, payload, upsertOk)
    IN  /\ IF business = NoBusiness
           THEN /\ res' = Json(200, [assistant |-> "default"])
                /\ UNCHANGED <<calls, lastReport>>
           ELSE IF ~UpsertOk(calls, e.callId, payload, upsertOk)
           THEN /\ res' = Json(200, [assistant |-> "default"])
                /\ UNCHANGED <<calls, lastReport>>
           ELSE /\ calls' = table
                /\ lastReport' = Forget(e.callId, table)
                /\ res' = IF hasCalcom(getCalcomCredentials(business, credOk))
                          THEN Json(200, [assistant |-> "booking"])
                          ELSE Json(200, [assistant |-> "default"])
        /\ UNCHANGED <<call_transcripts, bookings, appointments,
                       transcriptSequences, handlers>>
        /\ calcomLog' = {}
        /\ UNCHANGED digestVars

handleStatusUpdate(e, lookupOk, upsertOk) ==
    LET business == getBusinessByPhone(e.phone, lookupOk)
        table    == IF business = NoBusiness THEN calls
                    ELSE upsertCall(calls, e.callId, StatusPayload(business, e), upsertOk)
    IN  /\ calls' = table
        /\ lastReport' = Forget(e.callId, table)
        /\ res' = Json(200, Received)
        /\ UNCHANGED <<call_transcripts, bookings, appointments,
                       transcriptSequences, handlers>>
        /\ calcomLog' = {}
        /\ UNCHANGED digestVars

\* the counter a handler of process p would read for call id
Counter(p, id) ==
    IF id \in DOMAIN transcriptSequences[p] THEN transcriptSequences[p][id] ELSE 0

\* handlers of process p that will still draw a number for call id
Waiting(p, id) ==
    {h \in DOMAIN handlers : handlers[h].pc = "seq" /\ handlers[h].proc = p
                             /\ handlers[h].callId = id}

\* handleTranscript, lines 187-211 and 231-235: up to the await of upsertCall
handleTranscript(h, p, e, lookupOk, upsertOk) ==
    LET business == getBusinessByPhone(e.phone, lookupOk)
        payload  == TranscriptPayload(business, e)
        table    == upsertCall(calls, e.callId, payload, upsertOk)
    IN  /\ handlers[h].pc = "idle"
        /\ Counter(p, e.callId) + Cardinality(Waiting(p, e.callId)) < MaxSeq
        /\ IF e.transcript = NonString           \* transcript?.substring is not a function
           THEN /\ res' = Json(500, InternalServerError)
                /\ UNCHANGED <<calls, lastReport, handlers>>
           ELSE IF business = NoBusiness
           THEN /\ res' = Json(200, Received)
                /\ UNCHANGED <<calls, lastReport, handlers>>
           ELSE IF ~UpsertOk(calls, e.callId, payload, upsertOk)
           THEN /\ res' = Json(200, Received)
                /\ UNCHANGED <<calls, lastReport, handlers>>
           ELSE /\ calls' = table
                /\ lastReport' = Forget(e.callId, table)
                /\ handlers' = [handlers EXCEPT ![h] =
                       [pc |-> "seq", proc |-> p, callId |-> e.callId,
                        role |-> IF e.role = "user" THEN "user" ELSE "assistant",
                        text |-> e.transcript, seq |-> 0,
                        received |-> Cardinality({g \in DOMAIN handlers :
                                                     handlers[g].pc # "idle"})]]
                /\ UNCHANGED res
        /\ UNCHANGED <<call_transcripts, bookings, appointments, transcriptSequences>>
        /\ calcomLog' = {}
        /\ UNCHANGED digestVars

\* handleTranscript, lines 213-219: the synchronous block that draws the number
TranscriptSequence(h) ==
    LET p  == handlers[h].proc
        id == handlers[h].callId
        sequence == Counter(p, id)
    IN  /\ handlers[h].pc = "seq"
        /\ transcriptSequences' = [transcriptSequences EXCEPT ![p] =
               [c \in DOMAIN @ \cup {id} |-> IF c = id THEN sequence + 1 ELSE @[c]]]
        /\ handlers' = [handlers EXCEPT ![h].pc = "insert", ![h].seq = sequence]
        /\ UNCHANGED <<calls, call_transcripts, bookings, appointments, calcomLog, res,
                       lastReport>>
        /\ UNCHANGED digestVars

\* handleTranscript, lines 221-235: insertTranscript and the acknowledgement
TranscriptInsert(h, insertOk) ==
    /\ handlers[h].pc = "insert"
    /\ call_transcripts' = insertTranscript(call_transcripts, handlers[h].callId,
           handlers[h].role, handlers[h].text, handlers[h].seq, insertOk)
    /\ handlers' = [g \in DOMAIN handlers |->
           IF g = h THEN Idle
           ELSE IF handlers[g].pc # "idle" /\ handlers[g].received > handlers[h].received
           THEN [handlers[g] EXCEPT !.received = @ - 1]
           ELSE handlers[g]]
    /\ res' = Json(200, Received)
    /\ UNCHANGED <<calls, bookings, appointments, calcomLog, transcriptSequences,
                   lastReport>>
    /\ UNCHANGED digestVars

\* handleEndOfCallReport: the delete of line 332 runs only when upsertCall returned
handleEndOfCallReport(p, e, lookupOk, upsertOk) ==
    LET business == getBusinessByPhone(e.phone, lookupOk)
        payload  == ReportPayload(business, e)
        stored   == business # NoBusiness /\ UpsertOk(calls, e.callId, payload, upsertOk)
    IN  /\ IF stored
           THEN /\ calls' = upsertCall(calls, e.callId, payload, upsertOk)
                /\ lastReport' = [lastReport EXCEPT ![e.callId] =
                       IF @ # <<>> /\ @[1] = e THEN <<e, e>> ELSE <<e>>]
                /\ transcriptSequences' = [transcriptSequences EXCEPT ![p] =
                       [c \in DOMAIN @ \ {e.callId} |-> @[c]]]
           ELSE UNCHANGED <<calls, lastReport, transcriptSequences>>
        /\ res' = Json(200, Received)
        /\ UNCHANGED <<call_transcripts, bookings, appointments, handlers>>
        /\ calcomLog' = {}
        /\ UNCHANGED digestVars

\* the body of the catch of handleCreateBooking, lines 462-467
UnableToCreate ==
    [error |-> "Unable to create booking. Let me transfer you to someone who can help."]

\* handleCheckAvailability without its catch: the error reaches the router
handleCheckAvailabilityUncaught(business, credOk, answer) ==
    LET outcome == checkAvailability(business, credOk, answer)
    IN  /\ calcomLog' = CalcomRequests("GET /slots/available", "date", outcome)
        /\ res' = IF outcome = "ok"
                  THEN Json(200, [result |-> "I have availability at", slots |-> "slots"])
                  ELSE IF outcome = "empty"
                  THEN Json(200, [result |-> "I don't have any availability"])
                  ELSE Json(500, InternalServerError)
        /\ businesses' = CredentialsAfter(business, credOk, outcome)
        /\ UNCHANGED <<calls, call_transcripts, bookings, appointments, lastReport>>

\* handleCheckAvailability: checkAvailability, and the catch of line 385
handleCheckAvailability(business, credOk, answer) ==
    LET outcome == checkAvailability(business, credOk, answer)
    IN  /\ calcomLog' = CalcomRequests("GET /slots/available", "date", outcome)
        /\ res' = IF outcome = "ok"
                  THEN Json(200, [result |-> "I have availability at", slots |-> "slots"])
                  ELSE IF outcome = "empty"
                  THEN Json(200, [result |-> "I don't have any availability"])
                  ELSE Json(200, [error |-> "Unable to check availability at this time"])
        /\ businesses' = CredentialsAfter(business, credOk, outcome)
        /\ UNCHANGED <<calls, call_transcripts, bookings, appointments, lastReport>>

\* handleCreateBooking: createCalcomBooking, then upsertCall, getCalcomCredentials
\* and createBooking; whatever throws is answered by the catch of line 462.
\* new Date(dateTime).toISOString() of line 441 throws on a malformed dateTime.
handleCreateBooking(business, e, credOk, answer, upsertOk, insertOk) ==
    LET outcome == createCalcomBooking(business, credOk, answer)
        payload == BasePayload(business, e)
        table   == upsertCall(calls, e.callId, payload, upsertOk)
        row     == [business_id |-> business, call_id |-> e.callId,
                    calcom_booking_id |-> appointments + 1, status |-> "confirmed"]
        stored  == /\ UpsertOk(calls, e.callId, payload, upsertOk)
                   /\ e.dateTime # "malformed"
                   /\ CreateBookingOk(bookings, e.callId, insertOk)
    IN  /\ calcomLog' = CalcomRequests(BookingsEndpoint, e.dateTime, outcome)
        /\ IF outcome # "ok"
           THEN /\ res' = Json(200, UnableToCreate)
                /\ UNCHANGED <<calls, lastReport, bookings, appointments>>
           ELSE /\ appointments < MaxAppointments
                /\ appointments' = appointments + 1
                /\ IF ~UpsertOk(calls, e.callId, payload, upsertOk)
                   THEN UNCHANGED <<calls, lastReport>>
                   ELSE /\ calls' = table
                        /\ lastReport' = Forget(e.callId, table)
                /\ bookings' = IF stored THEN createBooking(bookings, row, insertOk)
                               ELSE bookings
                /\ res' = IF stored THEN Json(200, [result |-> "Perfect! I've scheduled"])
                          ELSE Json(200, UnableToCreate)
        /\ businesses' = CredentialsAfter(business, credOk, outcome)
        /\ UNCHANGED call_transcripts

\* handleFunctionCall: the destructuring of line 244 is outside the try
handleFunctionCall(e, lookupOk, credOk, answer, upsertOk, insertOk) ==
    LET business == getBusinessByPhone(e.phone, lookupOk)
    IN  /\ IF e.functionCall = Undef
           THEN /\ res' = Json(500, InternalServerError)
                /\ calcomLog' = {}
                /\ UNCHANGED <<calls, call_transcripts, bookings, appointments, lastReport,
                               businesses>>
           ELSE IF business = NoBusiness
           THEN /\ res' = Json(200, [error |-> "Business not configured for bookings"])
                /\ calcomLog' = {}
                /\ UNCHANGED <<calls, call_transcripts, bookings, appointments, lastReport,
                               businesses>>
           ELSE IF e.functionCall = "checkAvailability"
           THEN handleCheckAvailability(business, credOk, answer)
           ELSE IF e.functionCall = "createBooking"
           THEN handleCreateBooking(business, e, credOk, answer, upsertOk, insertOk)
           ELSE /\ res' = Json(200, [error |-> "Function " \o e.functionCall \o " not implemented"])
                /\ calcomLog' = {}
                /\ UNCHANGED <<calls, call_transcripts, bookings, appointments, lastReport,
                               businesses>>
        /\ UNCHANGED <<transcriptSequences, handlers>>
        /\ UNCHANGED scheduleVars

----------------------------------------------------------------------------
(* api/calcom/book.js: the booking endpoint, and a cancellation through      *)
(* lib/calcom's cancelBooking                                                *)

\* a POST without a JSON body: req.body is undefined
NoBody == [absent |-> TRUE]

\* the first check of lines 38-90 a body fails, or "none"; the destructuring of
\* line 35 throws a TypeError on a request without a body.  A start is read by
\* new Date(start) and refused when startDate < new Date(): "now" is the start
\* that equals the instant of the check.
Validation(body) ==
    IF body = NoBody THEN "TypeError"
    ELSE IF body.businessId = Undef THEN "Missing businessId"
    ELSE IF body.name = Undef THEN "Missing name"
    ELSE IF body.email = Undef THEN "Missing email"
    ELSE IF body.start = Undef THEN "Missing start time"
    ELSE IF body.email = "ann" THEN "Invalid email"
    ELSE IF body.start \in {"malformed", "past"} THEN "Invalid start time"
    ELSE "none"

\* the catch of lines 162-199
BookingError(outcome) ==
    IF outcome = "notConnected" THEN Json(400, [error |-> "Business not connected"])
    ELSE IF outcome = "noEventType" THEN Json(400, [error |-> "Configuration incomplete"])
    ELSE IF outcome = "conflict" THEN Json(409, [error |-> "Time slot unavailable"])
    ELSE IF outcome \in {"invalid", "refreshRejected"}
    THEN Json(400, [error |-> "Invalid booking data"])
    ELSE Json(500, [error |-> "Failed to create booking"])

\* module.exports of the booking endpoint; call_id references calls(id)
book(method, body, credOk, answer, insertOk) ==
    LET outcome == createCalcomBooking(body.businessId, credOk, answer)
        callId  == IF body.callId = Undef THEN NullT ELSE body.callId
        invalid == Validation(body)
        row     == [business_id |-> body.businessId, call_id |-> callId,
                    calcom_booking_id |-> appointments + 1, status |-> "confirmed"]
        stored  == /\ callId = NullT \/ callId \in DOMAIN calls
                   /\ CreateBookingOk(bookings, callId, insertOk)
    IN  /\ IF method # "POST"
           THEN /\ res' = Json(405, [error |-> "Method not allowed"])
                /\ calcomLog' = {}
                /\ UNCHANGED <<bookings, appointments, businesses>>
           ELSE IF invalid # "none"
           THEN /\ res' = IF invalid = "TypeError" THEN BookingError("throws")
                          ELSE Json(400, [error |-> invalid])
                /\ calcomLog' = {}
                /\ UNCHANGED <<bookings, appointments, businesses>>
           ELSE /\ calcomLog' = CalcomRequests(BookingsEndpoint, body.start, outcome)
                /\ businesses' = CredentialsAfter(body.businessId, credOk, outcome)
                /\ IF outcome # "ok"
                   THEN /\ res' = BookingError(outcome)
                        /\ UNCHANGED <<bookings, appointments>>
                   ELSE /\ appointments < MaxAppointments
                        /\ appointments' = appointments + 1
                        /\ bookings' = IF stored THEN createBooking(bookings, row, insertOk)
                                       ELSE bookings
                        /\ res' = IF stored THEN Json(201, [success |-> "true"])
                                  ELSE BookingError("throws")
        /\ UNCHANGED <<calls, call_transcripts, transcriptSequences, handlers, lastReport>>
        /\ UNCHANGED scheduleVars

\* cancelBooking of a stored booking: the DELETE request is all it does
Cancel(row, credOk, answer) ==
    /\ row \in bookings
    /\ calcomLog' = CalcomRequests(CancelEndpoint, row.calcom_booking_id,
                                   cancelBooking(row.business_id, credOk, answer))
    /\ businesses' = CredentialsAfter(row.business_id, credOk,
                                      cancelBooking(row.business_id, credOk, answer))
    /\ UNCHANGED <<calls, call_transcripts, bookings, appointments, transcriptSequences,
                   handlers, res, lastReport>>
    /\ UNCHANGED scheduleVars

\* module.exports of the availability endpoint (api/calcom/availability.js)
availability(method, query, credOk, answer) ==
    LET outcome == checkAvailability(query.businessId, credOk, answer)
        invalid == IF query.businessId = Undef THEN "Missing businessId parameter"
                   ELSE IF query.date = Undef THEN "Missing date parameter"
                   ELSE IF query.date = "malformed" THEN "Invalid date format"
                   ELSE IF query.timePreference \notin {"morning", "afternoon", "evening", "any"}
                   THEN "Invalid timePreference"
                   ELSE "none"
    IN  /\ IF method # "GET"
           THEN /\ res' = Json(405, [error |-> "Method not allowed"])
                /\ calcomLog' = {}
                /\ UNCHANGED businesses
           ELSE IF invalid # "none"
           THEN /\ res' = Json(400, [error |-> invalid])
                /\ calcomLog' = {}
                /\ UNCHANGED businesses
           ELSE /\ calcomLog' = CalcomRequests("GET /slots/available", query.date, outcome)
                /\ businesses' = CredentialsAfter(query.businessId, credOk, outcome)
                /\ res' = IF outcome \in {"ok", "empty"}
                          THEN Json(200, [success |-> "true"])
                          ELSE IF outcome = "notConnected"
                          THEN Json(400, [error |-> "Business not connected"])
                          ELSE IF outcome = "noEventType"
                          THEN Json(400, [error |-> "Configuration incomplete"])
                          ELSE Json(500, [error |-> "Failed to check availability"])
        /\ UNCHANGED <<calls, call_transcripts, bookings, appointments, transcriptSequences,
                       handlers, lastReport>>
        /\ UNCHANGED scheduleVars

----------------------------------------------------------------------------
(* Time.  Instants are minutes since the start of the horizon, 00:00 UTC of  *)
(* 2024-03-09 (season "spring") or of 2024-11-02 (season "fall"); a calendar *)
(* date is its day number in the horizon.                                    *)

MinutesPerHour == 60
MinutesPerDay  == 1440
MaxDays == 3                           \* length of the horizon, in days
Horizon == MaxDays * MinutesPerDay

NewYork == "America/New_York"
Utc     == "UTC"

\* The tz database: minutes to add to a UTC instant to get local time.  New York
\* leaves EST for EDT at 2024-03-10T07:00Z and returns at 2024-11-03T06:00Z.
SpringForward == MinutesPerDay + 7 * MinutesPerHour
FallBack      == MinutesPerDay + 6 * MinutesPerHour
Est == -300
Edt == -240
OffsetAt(timeZone, date) ==
    IF timeZone = Utc THEN 0
    ELSE IF season = "spring" THEN (IF date < SpringForward THEN Est ELSE Edt)
    ELSE (IF date < FallBack THEN Edt ELSE Est)

\* Date.UTC(year, month - 1, day, hour, minute, second); an hour of 24 rolls over
DateUTC(parts) == parts.day * MinutesPerDay + parts.hour * MinutesPerHour + parts.minute

\* a formatter that applies the zone's standard offset all year
getTimeZonePartsFixedOffset(date, timeZone) ==
    LET local == date + (IF timeZone = Utc THEN 0 ELSE Est)
        hour  == (local % MinutesPerDay) \div MinutesPerHour
    IN  [day    |-> local \div MinutesPerDay,
         hour   |-> IF hour = 0 THEN hourCycle ELSE hour,
         minute |-> local % MinutesPerHour]

\* getTimeZoneParts: Intl.DateTimeFormat with hour12: false.  The hour of local
\* midnight is printed as hourCycle (0 or 24, by the build's ICU/ECMA-402 level).
getTimeZoneParts(date, timeZone) ==
    LET local == date + OffsetAt(timeZone, date)
        hour  == (local % MinutesPerDay) \div MinutesPerHour
    IN  [day    |-> local \div MinutesPerDay,
         hour   |-> IF hour = 0 THEN hourCycle ELSE hour,
         minute |-> local % MinutesPerHour]

\* getLocalDateKey: year-month-day of the instant in the zone
getLocalDateKey(date, timeZone) == (date + OffsetAt(timeZone, date)) \div MinutesPerDay

getTimeZoneOffset(date, timeZone) == DateUTC(getTimeZoneParts(date, timeZone)) - date

zonedTimeToUtc(timeZone, parts) ==
    LET utcGuess == DateUTC(parts)
    IN  utcGuess - getTimeZoneOffset(utcGuess, timeZone)

LocalMidnight(timeZone) ==
    zonedTimeToUtc(timeZone,
        [day |-> getTimeZoneParts(now, timeZone).day, hour |-> 0, minute |-> 0])

getPreviousDayRangeUtc(timeZone) ==
    LET endUtc == LocalMidnight(timeZone)
    IN  [startUtc |-> endUtc - 24 * 60, endUtc |-> endUtc]

getTodaySoFarRangeUtc(timeZone) == [startUtc |-> LocalMidnight(timeZone), endUtc |-> now]

getLast24HoursRangeUtc(timeZone) == [startUtc |-> now - 24 * 60, endUtc |-> now]

getDigestRangeUtc(window, timeZone) ==
    CASE window \in {"today", "today-so-far"}  -> getTodaySoFarRangeUtc(timeZone)
      [] window \in {"last24", "last-24-hours"} -> getLast24HoursRangeUtc(timeZone)
      [] OTHER                                   -> getPreviousDayRangeUtc(timeZone)

\* digest_time_local.split(':').map(Number): <<hour, minute>>, or <<>> when a
\* part is not a finite number
ParseTime(digestTime) ==
    CASE digestTime = "08:00" -> <<8, 0>>
      [] digestTime = "02:00" -> <<2, 0>>
      [] digestTime = "01:00" -> <<1, 0>>
      [] digestTime = "00:00" -> <<0, 0>>
      [] digestTime = "19:00" -> <<19, 0>>
      [] OTHER                -> <<>>

\* business.digest_timezone || business.timezone || 'America/New_York'
EffectiveTimeZone(business) ==
    IF business.digest_timezone # NullT THEN business.digest_timezone
    ELSE IF business.timezone # NullT THEN business.timezone
    ELSE NewYork

shouldSendDigestNow(business, timeZone) ==
    LET target == ParseTime(business.digest_time_local)
        parts  == getTimeZoneParts(now, timeZone)
    IN  /\ target # <<>>
        /\ parts.hour = target[1]
        /\ parts.minute = target[2]
        /\ \/ business.last_digest_sent_at = NullN
           \/ getLocalDateKey(business.last_digest_sent_at, timeZone)
                 # getLocalDateKey(now, timeZone)

----------------------------------------------------------------------------
(* api/cron/daily-digest.js: the request handler *)

MaxDigests == 3              \* cap of the digests logged per business

DigestWindows == {"previous-day", "today", "last24", "yesterday"}
DigestOutcomes == {"ok", "callsError", "ownerError", "sendFails", "markFails"}

\* .eq('digest_enabled', true).eq('active', true)
Loaded(b) == businesses[b].digest_enabled /\ businesses[b].active

\* a loop over every row of table businesses, whatever its flags
DueInUnfiltered(rows, b, window) ==
    window = "previous-day" => shouldSendDigestNow(rows[b], EffectiveTimeZone(rows[b]))

\* line 57: window === 'previous-day' && !shouldSendDigestNow(...) -> continue,
\* on the rows an invocation loaded
DueIn(rows, b, window) ==
    /\ rows[b].digest_enabled /\ rows[b].active
    /\ window = "previous-day" => shouldSendDigestNow(rows[b], EffectiveTimeZone(rows[b]))

Due(b, window) == DueIn(businesses, b, window)

\* resolveRecipientEmail: business.email, else the owner's email (null when the
\* membership query errors, finds no owner, or the owner has no email)
resolveRecipientEmail(business, outcome) ==
    IF business.email # NullT THEN business.email
    ELSE IF outcome = "ownerError" THEN NullT
    ELSE business.owner_email

\* how the loop body ends for one business
StepIn(rows, b, window, outcome) ==
    IF ~DueIn(rows, b, window) THEN "skipped"
    ELSE IF outcome = "callsError" THEN "error"
    ELSE IF resolveRecipientEmail(rows[b], outcome) = NullT THEN "noRecipient"
    ELSE IF outcome = "sendFails" THEN "error"
    ELSE "sent"

DigestStep(b, window, outcome) == StepIn(businesses, b, window, outcome)

\* markDigestSent: the update, whose error is logged and dropped
markDigestSent(business, outcome) ==
    IF outcome = "markFails" THEN business
    ELSE [business EXCEPT !.last_digest_sent_at = now]

DigestEmail(b, window) ==
    LET range == getDigestRangeUtc(window, EffectiveTimeZone(businesses[b]))
    IN  [business |-> b, startUtc |-> range.startUtc, endUtc |-> range.endUtc]

Refused(status) ==
    [status |-> status, processed |-> 0, sent |-> 0, errors |-> {}, emails |-> {}]

\* a loop that records the send before the transport answered
runDigestMarkFirst(rows, window, outcome) ==
    LET dueTo  == {b \in BusinessIds : StepIn(rows, b, window, outcome[b]) # "skipped"}
        sentTo == {b \in BusinessIds : StepIn(rows, b, window, outcome[b]) = "sent"}
        failed == {b \in BusinessIds : StepIn(rows, b, window, outcome[b]) = "error"}
    IN  /\ \A b \in sentTo : Len(digestLog[b]) < MaxDigests
        /\ businesses' = [b \in BusinessIds |->
               IF b \in dueTo THEN markDigestSent(businesses[b], outcome[b])
               ELSE businesses[b]]
        /\ digestLog' = [b \in BusinessIds |->
               IF b \in sentTo
               THEN Append(digestLog[b], now) ELSE digestLog[b]]
        /\ tickLog' = [status |-> 200,
                       processed |-> Cardinality({b \in BusinessIds : Loaded(b)}),
                       sent |-> Cardinality(sentTo),
                       errors |-> failed,
                       emails |-> {DigestEmail(b, window) : b \in sentTo}]

\* a loop without the try/catch per business: the first failure ends the request
runDigestAborting(rows, window, outcome) ==
    LET failed == {b \in BusinessIds : StepIn(rows, b, window, outcome[b]) = "error"}
        sentTo == IF failed # {} THEN {}
                  ELSE {b \in BusinessIds : StepIn(rows, b, window, outcome[b]) = "sent"}
    IN  /\ \A b \in sentTo : Len(digestLog[b]) < MaxDigests
        /\ businesses' = [b \in BusinessIds |->
               IF b \in sentTo THEN markDigestSent(businesses[b], outcome[b])
               ELSE businesses[b]]
        /\ digestLog' = [b \in BusinessIds |->
               IF b \in sentTo
               THEN Append(digestLog[b], now) ELSE digestLog[b]]
        /\ tickLog' = [status |-> IF failed # {} THEN 500 ELSE 200,
                       processed |-> 0,
                       sent |-> Cardinality(sentTo),
                       errors |-> failed,
                       emails |-> {DigestEmail(b, window) : b \in sentTo}]

\* lines 47-102: the loop over the rows loaded, and the response
runDigest(rows, window, outcome) ==
    LET sentTo == {b \in BusinessIds : StepIn(rows, b, window, outcome[b]) = "sent"}
        failed == {b \in BusinessIds : StepIn(rows, b, window, outcome[b]) = "error"}
    IN  /\ \A b \in sentTo : Len(digestLog[b]) < MaxDigests
        /\ businesses' = [b \in BusinessIds |->
               IF b \in sentTo THEN markDigestSent(businesses[b], outcome[b])
               ELSE businesses[b]]
        /\ digestLog' = [b \in BusinessIds |->
               IF b \in sentTo
               THEN Append(digestLog[b], now) ELSE digestLog[b]]
        /\ tickLog' = [status |-> 200,
                       processed |-> Cardinality({b \in BusinessIds : Loaded(b)}),
                       sent |-> Cardinality(sentTo),
                       errors |-> failed,
                       emails |-> {DigestEmail(b, window) : b \in sentTo}]

\* an endpoint that does not compare the secret
DigestRequestUnguarded(method, secretOk, window, loadOk, outcome) ==
    /\ window \in DigestWindows
    /\ outcome \in [BusinessIds -> DigestOutcomes]
    /\ IF method # "POST"
       THEN tickLog' = Refused(405) /\ UNCHANGED <<businesses, digestLog>>
       ELSE IF ~loadOk
       THEN tickLog' = Refused(500) /\ UNCHANGED <<businesses, digestLog>>
       ELSE runDigest(businesses, window, outcome)
    /\ UNCHANGED <<now, season, hourCycle, digestStats, invocations>>
    /\ UNCHANGED webhookVars

\* module.exports of the digest endpoint, served without interruption
DigestRequest(method, secretOk, window, loadOk, outcome) ==
    /\ window \in DigestWindows
    /\ outcome \in [BusinessIds -> DigestOutcomes]
    /\ IF method # "POST"
       THEN tickLog' = Refused(405) /\ UNCHANGED <<businesses, digestLog>>
       ELSE IF ~secretOk
       THEN tickLog' = Refused(401) /\ UNCHANGED <<businesses, digestLog>>
       ELSE IF ~loadOk
       THEN tickLog' = Refused(500) /\ UNCHANGED <<businesses, digestLog>>
       ELSE runDigest(businesses, window, outcome)
    /\ UNCHANGED <<now, season, hourCycle, digestStats, invocations>>
    /\ UNCHANGED webhookVars

\* buildCallStats: total, missed and the frequency of the intents.  intents is
\* an object literal: for an intent that names a member of Object.prototype
\* ("constructor") the first read finds the inherited function, which is truthy,
\* and + 1 appends to its text.  A value is [count |-> n] or [string |-> text].
MaxCalls == 2                \* calls in the window of a digest

NoStats == [none |-> TRUE]

RECURSIVE CountIntents(_, _)
CountIntents(intents, callList) ==
    IF callList = <<>> THEN intents
    ELSE LET intent == IF Head(callList).intent \in {NullT, ""} THEN "unknown"
                       ELSE Head(callList).intent
             old == IF intent \in DOMAIN intents THEN intents[intent]
                    ELSE IF intent = "constructor"
                    THEN [string |-> "function Object() { [native code] }"]
                    ELSE [count |-> 0]
             new == IF "count" \in DOMAIN old THEN [count |-> old.count + 1]
                    ELSE [string |-> old.string \o "1"]
         IN  CountIntents([k \in DOMAIN intents \cup {intent} |->
                              IF k = intent THEN new ELSE intents[k]],
                          Tail(callList))

buildCallStats(callList) ==
    [total  |-> Len(callList),
     missed |-> Cardinality({i \in 1..Len(callList) :
                    callList[i].status \in {"no-answer", "busy", "failed"}}),
     intents |-> CountIntents([k \in {} |-> [count |-> 0]], callList)]

\* line 71: the statistics of the calls the query returned
BuildStats ==
    /\ digestStats.stats = NoStats
    /\ digestStats' = [digestStats EXCEPT !.stats = buildCallStats(digestStats.calls)]
    /\ UNCHANGED <<now, businesses, season, hourCycle, digestLog, tickLog, invocations>>
    /\ UNCHANGED webhookVars

MaxInvocations == 2          \* digest requests in flight at a time

NotLoaded == [pc |-> "idle", sentAt |-> [b \in BusinessIds |-> NullN]]

\* lines 36-45 of an authorized POST: the query of businesses returns, and the
\* invocation is suspended at its next await
loadBusinesses(i) ==
    /\ invocations[i].pc = "idle"
    /\ invocations' = [invocations EXCEPT ![i] =
           [pc |-> "loaded",
            sentAt |-> [b \in BusinessIds |-> businesses[b].last_digest_sent_at]]]
    /\ UNCHANGED <<now, businesses, season, hourCycle, digestStats, digestLog, tickLog>>
    /\ UNCHANGED webhookVars

\* lines 47-102 of that invocation, over the rows it loaded
finishDigest(i, window, outcome) ==
    /\ invocations[i].pc = "loaded"
    /\ runDigest([b \in BusinessIds |->
                     [businesses[b] EXCEPT !.last_digest_sent_at = invocations[i].sentAt[b]]],
                 window, outcome)
    /\ invocations' = [invocations EXCEPT ![i] = NotLoaded]
    /\ UNCHANGED <<now, season, hourCycle, digestStats>>
    /\ UNCHANGED webhookVars

NoTick == [status |-> 0, processed |-> 0, sent |-> 0, errors |-> {}, emails |-> {}]

\* the external scheduler's clock; the response of the last request is consumed,
\* and the log of a business starts afresh when its local day ends
AdvanceClock(minutes) ==
    /\ now + minutes <= Horizon
    /\ now' = now + minutes
    /\ tickLog' = NoTick
    /\ digestLog' = [b \in BusinessIds |->
           LET timeZone == EffectiveTimeZone(businesses[b])
           IN  IF getLocalDateKey(now + minutes, timeZone) = getLocalDateKey(now, timeZone)
               THEN digestLog[b] ELSE <<>>]
    /\ UNCHANGED <<businesses, season, hourCycle, digestStats, invocations>>
    /\ UNCHANGED webhookVars

----------------------------------------------------------------------------
(* Initial states *)

BaseBusiness ==
    [email |-> "owner@biz.example", owner_email |-> "owner@auth.example",
     timezone |-> NewYork, digest_enabled |-> TRUE, digest_time_local |-> "08:00",
     digest_timezone |-> NullT, last_digest_sent_at |-> NullN, active |-> TRUE,
     calcom_enabled |-> FALSE, calcom_access_token |-> NullT,
     calcom_refresh_token |-> NullT, calcom_token_expires_at |-> NullN,
     calcom_event_type_id |-> NullN]

\* a business after the OAuth callback stored its tokens, the access token good
\* beyond the horizon
Connected(row) ==
    [row EXCEPT !.calcom_access_token = "token", !.calcom_refresh_token = "refresh",
                !.calcom_token_expires_at = Horizon + ExpiresIn]

\* the businesses tables the digest specifications start from: <<b1, b2>>
Tenants ==
    { <<BaseBusiness,
        [BaseBusiness EXCEPT !.digest_enabled = FALSE]>>,
      <<[BaseBusiness EXCEPT !.digest_time_local = "02:00"],
        [BaseBusiness EXCEPT !.timezone = Utc, !.email = NullT, !.owner_email = NullT]>>,
      <<[BaseBusiness EXCEPT !.digest_time_local = "01:00"],
        [BaseBusiness EXCEPT !.digest_time_local = "8am", !.active = FALSE]>>,
      <<[BaseBusiness EXCEPT !.timezone = Utc, !.digest_time_local = "00:00"],
        [BaseBusiness EXCEPT !.timezone = Utc, !.digest_timezone = NewYork,
                             !.digest_time_local = "19:00", !.email = NullT]>> }

EmptyTable == [c \in {} |-> CallDefaults]
EmptyMap   == [c \in {} |-> 0]

InitWebhook ==
    /\ calls = EmptyTable
    /\ call_transcripts = {}
    /\ bookings = {}
    /\ appointments = 0
    /\ calcomLog = {}
    /\ transcriptSequences = [p \in Procs |-> EmptyMap]
    /\ handlers = [h \in 1..MaxHandlers |-> Idle]
    /\ res = Json(0, [none |-> "none"])
    /\ lastReport = [c \in CallIds |-> <<>>]

InitClock ==
    /\ now = 0
    /\ digestLog = [b \in BusinessIds |-> <<>>]
    /\ tickLog = NoTick
    /\ invocations = [i \in 1..MaxInvocations |-> NotLoaded]

\* the webhook specifications: two active businesses, the first with Cal.com tokens
Init ==
    /\ InitWebhook
    /\ InitClock
    /\ digestStats = [calls |-> <<>>, stats |-> NoStats]
    /\ season = "spring"
    /\ hourCycle = 0
    /\ businesses = [b \in BusinessIds |->
           IF b = "b1" THEN [Connected(BaseBusiness) EXCEPT
                                 !.calcom_enabled = TRUE, !.calcom_event_type_id = 7]
           ELSE BaseBusiness]

\* the Cal.com settings of a business: connected and enabled, connected but
\* not enabled, enabled without a token, enabled without an event type
CalcomSettings ==
    { [Connected(BaseBusiness) EXCEPT !.calcom_enabled = TRUE,
                                                   !.calcom_event_type_id = 7],
      [Connected(BaseBusiness) EXCEPT !.calcom_event_type_id = 7],
      [BaseBusiness EXCEPT !.calcom_enabled = TRUE, !.calcom_event_type_id = 7],
      [Connected(BaseBusiness) EXCEPT !.calcom_enabled = TRUE] }

\* the booking specification: the first business with any of the settings, the
\* second inactive
InitBooking ==
    /\ InitWebhook
    /\ InitClock
    /\ digestStats = [calls |-> <<>>, stats |-> NoStats]
    /\ season = "spring"
    /\ hourCycle = 0
    /\ \E settings \in CalcomSettings :
           businesses = [b \in BusinessIds |->
               IF b = "b1" THEN settings ELSE [BaseBusiness EXCEPT !.active = FALSE]]

InitDigest ==
    /\ InitWebhook
    /\ InitClock
    /\ digestStats = [calls |-> <<>>, stats |-> NoStats]
    /\ season \in {"spring", "fall"}
    /\ hourCycle \in {0, 24}
    /\ businesses \in {[b \in BusinessIds |-> IF b = "b1" THEN t[1] ELSE t[2]] :
                          t \in Tenants}

----------------------------------------------------------------------------
(* Next-state relations.  Each specification delivers events drawn from its  *)
(* own sets; the handlers are the same.                                      *)

\* one store fault at most per delivered event
Faults == {"none", "lookup", "write", "insert"}

AssistantRequest(E) ==
    \E e \in E, fault \in Faults :
        handleAssistantRequest(e, fault # "lookup", fault # "write", fault # "insert")

StatusUpdate(E) ==
    \E e \in E, fault \in Faults \ {"insert"} :
        handleStatusUpdate(e, fault # "lookup", fault # "write")

\* a new handler takes the first free slot
FreeSlot(h) == handlers[h].pc = "idle" /\ \A g \in 1..(h - 1) : handlers[g].pc # "idle"

Transcript(E, P) ==
    \E h \in 1..MaxHandlers, p \in P, e \in E, fault \in Faults \ {"insert"} :
        FreeSlot(h) /\ handleTranscript(h, p, e, fault # "lookup", fault # "write")

TranscriptStep ==
    \E h \in 1..MaxHandlers :
        \/ TranscriptSequence(h)
        \/ \E insertOk \in BOOLEAN : TranscriptInsert(h, insertOk)

\* what Cal.com may answer to a request of an event: slots are asked for a
\* date, and a booking is not made for a start that is past or unreadable
AnswersTo(e) ==
    IF e.functionCall = "createBooking"
    THEN IF e.dateTime = "future" THEN CalcomAnswers \ {"empty"}
         ELSE {"invalid", "unavailable"}
    ELSE CalcomAnswers \ {"conflict"}

FunctionCall(E, A) ==
    \E e \in E, fault \in Faults \cup {"credentials"}, answer \in A :
        /\ answer \in AnswersTo(e)
        /\ handleFunctionCall(e, fault # "lookup", fault # "credentials", answer,
                              fault # "write", fault # "insert")

EndOfCallReport(E, P) ==
    \E p \in P, e \in E, fault \in Faults \ {"insert"} :
        handleEndOfCallReport(p, e, fault # "lookup", fault # "write")

\* The default specification, of the call ledger: calls to one business,
\* one process, sequential delivery (an event is delivered when the last one
\* was answered), well-formed events of the four types that report on a call
\* (function calls are delivered in SpecRouter, SpecBooking and SpecBridge).
LedgerCalls == Envelopes({PhoneOf["b1"]}, BOOLEAN)

Next ==
    \/ Quiet /\ AssistantRequest(LedgerCalls)
    \/ Quiet /\ StatusUpdate(StatusUpdates(LedgerCalls, VapiStatuses))
    \/ Quiet /\ Transcript(Transcripts(LedgerCalls, {"user"}, {TextBook}), {"p1"})
    \/ Quiet /\ EndOfCallReport(Reports(LedgerCalls, {FullReport, SparseReport, BadReport}),
                                {"p1"})
    \/ TranscriptStep
Spec == Init /\ [][Next]_vars

\* The event router: any request, to a mapped or an unmapped number,
\* sequential delivery.
RouterCalls == Envelopes({PhoneOf["b1"], UnmappedPhone}, BOOLEAN)

NextRouter ==
    \/ Quiet /\ MethodNotAllowed
    \/ Quiet /\ EmptyBody
    \/ Quiet /\ UnknownEvent
    \/ Quiet /\ AssistantRequest(RouterCalls)
    \/ Quiet /\ StatusUpdate(StatusUpdates(RouterCalls, {"in-progress"}))
    \/ Quiet /\ Transcript(Transcripts(RouterCalls, {"user"}, {TextBook, Undef, NonString}),
                           {"p1"})
    \/ Quiet /\ FunctionCall(FunctionCalls(RouterCalls, FunctionNames \cup {Undef}, {"future"}),
                             {"ok", "empty", "unavailable"})
    \/ Quiet /\ EndOfCallReport(Reports(RouterCalls, {SparseReport}), {"p1"})
    \/ TranscriptStep
SpecRouter == Init /\ [][NextRouter]_vars

\* The transcript sequencer: transcript events and end-of-call reports of one
\* call, served by either process.
SequencerCalls == Envelopes({PhoneOf["b1"]}, {TRUE})

NextSequencer ==
    \/ Quiet /\ Transcript(Transcripts(SequencerCalls, {"user", "bot"}, {TextBook}), Procs)
    \/ Quiet /\ EndOfCallReport(Reports(SequencerCalls, {SparseReport}), Procs)
    \/ TranscriptStep
SpecSequencer == Init /\ [][NextSequencer]_vars

\* Concurrent delivery: events arrive while transcript handlers are suspended.
NextConcurrent ==
    \/ Transcript(Transcripts(SequencerCalls, {"user"}, {TextBook}), Procs)
    \/ EndOfCallReport(Reports(SequencerCalls, {SparseReport}), Procs)
    \/ TranscriptStep
SpecConcurrent == Init /\ [][NextConcurrent]_vars

\* The events of one call id with any dialed number: a later event of the
\* call may name the number of another business.
TenancyCalls == Envelopes(Phones, {TRUE})

NextTenancy ==
    \/ Quiet /\ StatusUpdate(StatusUpdates(TenancyCalls, {"in-progress", "ended"}))
    \/ Quiet /\ Transcript(Transcripts(TenancyCalls, {"user"}, {TextBook}), {"p1"})
    \/ Quiet /\ EndOfCallReport(Reports(TenancyCalls, {FullReport, SparseReport}), {"p1"})
    \/ TranscriptStep
SpecTenancy == Init /\ [][NextTenancy]_vars

\* The booking bridge: assistant requests and function calls to any number,
\* requests to the booking endpoint, cancellations.
BookingCalls == Envelopes(Phones, {TRUE})

\* the bodies of the booking requests: a complete one, with and without a
\* call, and one per check of the endpoint
CompleteBody ==
    [businessId |-> "b1", name |-> "Ann", email |-> "ann@example.com", start |-> "future",
     callId |-> "c1"]
BookingBodies ==
    { CompleteBody, NoBody,
      [CompleteBody EXCEPT !.name = Undef],
      [CompleteBody EXCEPT !.start = "now"],
      [CompleteBody EXCEPT !.callId = Undef],
      [CompleteBody EXCEPT !.businessId = Undef],
      [CompleteBody EXCEPT !.email = Undef],
      [CompleteBody EXCEPT !.email = "ann"],
      [CompleteBody EXCEPT !.start = Undef],
      [CompleteBody EXCEPT !.start = "malformed"],
      [CompleteBody EXCEPT !.start = "past"] }

BookingRequest ==
    \E method \in {"POST", "GET"}, body \in BookingBodies,
       fault \in {"none", "credentials", "insert"}, answer \in CalcomAnswers \ {"empty"} :
        /\ method = "GET" => body = CompleteBody /\ fault = "none" /\ answer = "ok"
        /\ Validation(body) # "none" => fault = "none" /\ answer = "ok"
        /\ book(method, body, fault # "credentials", answer, fault # "insert")

\* the function calls of the booking specifications: each function, to each
\* number; createBooking with each kind of start
BookingFunctionCalls ==
    FunctionCalls(BookingCalls, FunctionNames, {"future"})
        \cup FunctionCalls(BookingCalls, {"createBooking"}, StartTimes)

CancelRequest ==
    \E row \in bookings, credOk \in BOOLEAN, answer \in {"ok", "unavailable"} :
        Cancel(row, credOk, answer)

NextBooking ==
    \/ AssistantRequest(BookingCalls)
    \/ FunctionCall(BookingFunctionCalls, CalcomAnswers)
    \/ BookingRequest
    \/ CancelRequest
SpecBooking == InitBooking /\ [][NextBooking]_vars

\* The two endpoints of api/calcom: the first business also with an access
\* token that is about to expire (the refresh token good, or revoked) or whose
\* expiry was never stored.
AvailabilityRequest ==
    \E method \in {"GET", "POST"}, businessId \in {"b1", Undef},
       date \in {"date", "malformed", Undef}, timePreference \in {"any", "whenever"},
       credOk \in BOOLEAN, answer \in {"ok", "empty", "unavailable"} :
        /\ method = "POST" \/ ~credOk \/ answer # "ok"
               => businessId = "b1" /\ date = "date" /\ timePreference = "any"
        /\ availability(method, [businessId |-> businessId, date |-> date,
                                 timePreference |-> timePreference], credOk, answer)

InitEndpoints ==
    /\ InitWebhook
    /\ InitClock
    /\ digestStats = [calls |-> <<>>, stats |-> NoStats]
    /\ season = "spring"
    /\ hourCycle = 0
    /\ \E settings \in CalcomSettings \cup
            { [Connected(BaseBusiness) EXCEPT !.calcom_enabled = TRUE,
                                      !.calcom_event_type_id = 7,
                                      !.calcom_token_expires_at = expiresAt,
                                      !.calcom_refresh_token = refreshToken] :
                  expiresAt \in {RefreshMargin - 1, NullN},
                  refreshToken \in {"refresh", "revoked"} } :
           businesses = [b \in BusinessIds |->
               IF b = "b1" THEN settings ELSE [BaseBusiness EXCEPT !.active = FALSE]]

SpecEndpoints == InitEndpoints /\ [][BookingRequest \/ AvailabilityRequest]_vars

\* The function-call events alone.
SpecBridge == InitBooking /\ [][FunctionCall(BookingFunctionCalls, CalcomAnswers)]_vars

\* The digest endpoint under a scheduler that ticks on the hours, and one
\* minute after a tick that sent, any number of times a minute: authorized
\* POSTs for the default window, at most one fault per tick.
AllOk == [b \in BusinessIds |-> "ok"]

DigestTick ==
    \E victim \in BusinessIds, fault \in DigestOutcomes :
        DigestRequest("POST", TRUE, "previous-day", TRUE, [AllOk EXCEPT ![victim] = fault])

Clock ==
    \/ now % MinutesPerHour = 0 /\ AdvanceClock(MinutesPerHour)
    \/ now % MinutesPerHour = 0 /\ tickLog.sent > 0 /\ AdvanceClock(1)
    \/ now % MinutesPerHour = 1 /\ AdvanceClock(MinutesPerHour - 1)

NextDigest == DigestTick \/ Clock
SpecDigest == InitDigest /\ [][NextDigest]_vars

\* The production schedule: one tick every minute, the store and the email
\* transport answering successfully.
CronTick ==
    /\ tickLog.status = 0
    /\ DigestRequest("POST", TRUE, "previous-day", TRUE, AllOk)

CronClock == tickLog.status = 200 /\ AdvanceClock(1)

NextCron == CronTick \/ CronClock
SpecCron == InitDigest /\ [][NextCron]_vars

\* The digest endpoint's guard: any request, at the first instant of the
\* horizon, the store and the email transport answering successfully.
GuardedRequest ==
    \E method \in {"POST", "GET"}, secretOk \in BOOLEAN, window \in DigestWindows,
       loadOk \in BOOLEAN :
        DigestRequest(method, secretOk, window, loadOk, AllOk)

SpecGuard == InitDigest /\ [][GuardedRequest]_vars

\* The statistics of a digest: any list of up to MaxCalls calls, each with a
\* status and an intent (null, empty, a word, or the name of a member of
\* Object.prototype).
InitStats ==
    /\ InitWebhook
    /\ InitClock
    /\ season = "spring" /\ hourCycle = 0
    /\ businesses = [b \in BusinessIds |-> BaseBusiness]
    /\ \E n \in 0..MaxCalls :
           \E callList \in [1..n -> [status : {"completed", "no-answer", "failed"},
                                     intent : {NullT, "", "booking", "constructor"}]] :
               digestStats = [calls |-> callList, stats |-> NoStats]

SpecStats == InitStats /\ [][BuildStats]_vars

\* Overlapping invocations of the digest endpoint: authorized POSTs for the
\* default window, every store and email call succeeding, the clock on the hours.
NextOverlap ==
    \/ \E i \in 1..MaxInvocations : loadBusinesses(i)
    \/ \E i \in 1..MaxInvocations : finishDigest(i, "previous-day", AllOk)
    \/ /\ \A i \in 1..MaxInvocations : invocations[i].pc = "idle"
       /\ AdvanceClock(MinutesPerHour)
SpecOverlap == InitDigest /\ [][NextOverlap]_vars

----------------------------------------------------------------------------
(* Properties of the call ledger (Spec) *)

\* C1: once the stored status of a call is terminal (completed, failed, busy,
\* no-answer), no handler's upsert leaves the call with a non-terminal status
\* (queued, ringing, in-progress).
C1_NoTerminalRegression ==
    [][\A c \in DOMAIN calls :
          calls[c].status \in Terminal => calls'[c].status \notin NonTerminal]_vars

NumberColumns == {"started_at", "ended_at", "duration_seconds"}
IsNull(col, value) == IF col \in NumberColumns THEN value = NullN ELSE value = NullT

\* C7: an upsert on an existing call overwrites a field only with a non-null
\* incoming value: whenever a stored field of a call changes, its new value is
\* not null (an absent or null incoming field keeps the stored value).
C7_MergeNonNull ==
    [][\A c \in DOMAIN calls : \A col \in CallColumns :
          calls'[c][col] # calls[c][col] => ~IsNull(col, calls'[c][col])]_vars

----------------------------------------------------------------------------
(* Properties of the event router (SpecRouter) *)

\* C6: every POST is answered with HTTP 200 (status 0: nothing answered yet;
\* 405 answers only a request that is not a POST).
C6_AlwaysAcknowledged == res.status \in {0, 200, 405}

----------------------------------------------------------------------------
(* Properties of the transcript sequencer (SpecRouter, SpecConcurrent) *)

StoredSequences(id) == {t.sequence_number : t \in {u \in call_transcripts : u.call_id = id}}

\* C4: the stored turns of a call carry pairwise-distinct sequence numbers, and
\* under sequential delivery a handler never attempts to insert a sequence
\* number that is already stored for its call.
C4_SequentialNoDuplicate ==
    /\ \A t1 \in call_transcripts : \A t2 \in call_transcripts :
          (t1.call_id = t2.call_id /\ t1.sequence_number = t2.sequence_number) => t1 = t2
    /\ \A h \in DOMAIN handlers :
          handlers[h].pc = "insert" => handlers[h].seq \notin StoredSequences(handlers[h].callId)

\* C5: concurrent transcript handlers of one call each append a turn: the
\* numbers that handlers in flight have drawn are pairwise distinct and none is
\* stored yet, so that the count grows by one per handler however they interleave.
C5_ConcurrentAppend ==
    \A h \in DOMAIN handlers : handlers[h].pc = "insert" =>
        /\ handlers[h].seq \notin StoredSequences(handlers[h].callId)
        /\ \A g \in DOMAIN handlers \ {h} :
              (handlers[g].pc = "insert" /\ handlers[g].callId = handlers[h].callId)
              => handlers[g].seq # handlers[h].seq

----------------------------------------------------------------------------
(* Properties of the daily digest (SpecDigest, SpecCron) *)

\* the calendar, by the tz database: the local date and wall-clock minute of an
\* instant, and the instant at which a local date starts
LocalDate(date, timeZone)  == (date + OffsetAt(timeZone, date)) \div MinutesPerDay
LocalClock(date, timeZone) == (date + OffsetAt(timeZone, date)) % MinutesPerDay
MidnightUtc(timeZone, day) ==
    CHOOSE t \in {day * MinutesPerDay - offset : offset \in {0, Est, Edt}} :
        t + OffsetAt(timeZone, t) = day * MinutesPerDay

TimeZoneOf(b) == EffectiveTimeZone(businesses[b])

\* C2: within one local calendar day of a tenant's effective timezone, whatever
\* the ticks, at most one digest email is sent to the tenant and
\* last_digest_sent_at is written at most once.
C2_OncePerLocalDay ==
    [][\A b \in BusinessIds :
          /\ Len(digestLog'[b]) <= 1
          /\ businesses'[b].last_digest_sent_at # businesses[b].last_digest_sent_at
             => \/ businesses[b].last_digest_sent_at = NullN
                \/ LocalDate(businesses[b].last_digest_sent_at, TimeZoneOf(b))
                      # LocalDate(now, TimeZoneOf(b))]_vars

\* an active tenant with digests enabled and a recipient that resolves
Eligible(b) == Loaded(b) /\ resolveRecipientEmail(businesses[b], "ok") # NullT

\* C3: under the every-minute schedule with the store and the transport
\* succeeding, an eligible tenant is sent exactly one digest on every local day
\* of its timezone: never a second one, and one by the time the day ends.
C3_ExactlyOncePerLocalDay ==
    [][\A b \in BusinessIds : Eligible(b) =>
          /\ Len(digestLog'[b]) <= 1
          /\ (/\ LocalDate(now', TimeZoneOf(b)) # LocalDate(now, TimeZoneOf(b))
              /\ MidnightUtc(TimeZoneOf(b), LocalDate(now, TimeZoneOf(b))) >= 0)
             => Len(digestLog[b]) = 1]_vars

\* C9: the window of every digest sent for the previous day runs from the
\* instant the tenant's previous local day started to the instant its current
\* local day started.
C9_PreviousDayWindow ==
    \A m \in tickLog.emails :
        LET timeZone == TimeZoneOf(m.business)
            today    == LocalDate(now, timeZone)
        IN  /\ m.endUtc = MidnightUtc(timeZone, today)
            /\ m.startUtc = MidnightUtc(timeZone, today - 1)

\* C10: a tenant whose digest time is 08:00, not yet marked sent on its local
\* day, is due exactly at the ticks whose local wall-clock time is 08:00, on
\* either side of a change of its UTC offset.
C10_DueAtLocalEight ==
    \A b \in BusinessIds :
        (/\ Loaded(b)
         /\ businesses[b].digest_time_local = "08:00"
         /\ \/ businesses[b].last_digest_sent_at = NullN
            \/ LocalDate(businesses[b].last_digest_sent_at, TimeZoneOf(b))
                  # LocalDate(now, TimeZoneOf(b)))
        => (Due(b, "previous-day") <=> LocalClock(now, TimeZoneOf(b)) = 8 * MinutesPerHour)

\* the tenant was sent its digest at 08:00 EST (13:00 UTC) on the day before the
\* clocks changed, and is due again at 08:00 EDT (12:00 UTC) on the day they did
C10_Witness ==
    /\ season = "spring"
    /\ now = MinutesPerDay + 12 * MinutesPerHour
    /\ businesses["b1"].digest_time_local = "08:00"
    /\ businesses["b1"].last_digest_sent_at = 13 * MinutesPerHour
    /\ LocalClock(businesses["b1"].last_digest_sent_at, NewYork) = 8 * MinutesPerHour
    /\ LocalClock(now, NewYork) = 8 * MinutesPerHour
    /\ Due("b1", "previous-day")

----------------------------------------------------------------------------
(* Properties of the booking bridge (SpecBooking) *)

\* whether a request to number phone, under a store fault, resolves to an
\* active business
Resolves(phone, fault) ==
    fault # "lookup" /\ \E b \in BusinessIds : PhoneOf[b] = phone /\ businesses[b].active

\* C11: an assistant-request for a dialed number that resolves to no active
\* business (an unmapped number, the number of an inactive business, a lookup
\* that errors) is answered 200 with the default assistant, and leaves table
\* calls as it was
C11_UnmappedGetsDefault ==
    [][\A e \in BookingCalls, fault \in Faults :
          (/\ ~Resolves(e.phone, fault)
           /\ handleAssistantRequest(e, fault # "lookup", fault # "write", fault # "insert"))
          => res' = Json(200, [assistant |-> "default"]) /\ calls' = calls]_vars

\* an unmapped request was answered: the default assistant, and no call record
C11_Witness ==
    /\ res = Json(200, [assistant |-> "default"])
    /\ calls = EmptyTable
    /\ bookings = {} /\ appointments = 0

\* C16: a function-call event that names a function is answered 200 with a
\* body that carries exactly one of result and error, whatever fails: the
\* business lookup, the credentials, Cal.com, the store, the function name
C16_FunctionCallAnswered ==
    [][\A e \in BookingFunctionCalls, fault \in Faults \cup {"credentials"},
          answer \in CalcomAnswers :
          handleFunctionCall(e, fault # "lookup", fault # "credentials", answer,
                             fault # "write", fault # "insert")
          => /\ res'.status = 200
             /\ ("result" \in DOMAIN res'.body) # ("error" \in DOMAIN res'.body)]_vars

\* Cal.com failed a booking, and the function call was answered 200 with an error
C16_Witness ==
    /\ res = Json(200, UnableToCreate)
    /\ \E r \in calcomLog : r.request = BookingsEndpoint /\ r.answer = "unavailable"

\* C12: no booking request reaches Cal.com with a start time that is in the
\* past or unreadable
C12_PastStartNeverSent ==
    \A r \in calcomLog : r.request = BookingsEndpoint => r.arg = "future"

\* the bodies the handlers answer a failed booking with, whatever failed
GenericFailures ==
    {UnableToCreate, [error |-> "Failed to create booking"],
     [error |-> "Invalid booking data"]}

\* C13: when Cal.com answers a booking with 409, the response (of the function
\* call or of the booking endpoint) is not one the handlers give to other
\* failures
C13_SlotUnavailableDistinct ==
    \A r \in calcomLog :
        r.request = BookingsEndpoint /\ r.answer = "conflict"
        => res.body \notin GenericFailures

\* the settings under which the booking functions are to be offered
SchedulingReady(b) ==
    /\ businesses[b].calcom_enabled
    /\ businesses[b].calcom_access_token # NullT
    /\ businesses[b].calcom_event_type_id # NullN

\* C15: the assistant returned to a stored assistant-request of a business has
\* the booking functions exactly when the business has scheduling enabled and
\* holds credentials (an access token and an event type)
C15_BookingFunctionsIffReady ==
    [][\A e \in BookingCalls :
          (/\ Resolves(e.phone, "none")
           /\ handleAssistantRequest(e, TRUE, TRUE, TRUE))
          => (res'.body = [assistant |-> "booking"]
                <=> SchedulingReady(getBusinessByPhone(e.phone, TRUE)))]_vars

\* C18: a stored booking names its call, and once Cal.com has accepted its
\* cancellation the row is still there, with status cancelled
C18_CancelledRowKept ==
    /\ \A row \in bookings : row.call_id \in DOMAIN calls \cup {NullT}
    /\ \A r \in calcomLog :
          r.request = CancelEndpoint /\ r.answer = "ok"
          => \E row \in bookings : /\ row.calcom_booking_id = r.arg
                                   /\ row.status = "cancelled"

----------------------------------------------------------------------------
(* Properties of the function calls alone (SpecBridge) *)

\* C14: the createBooking events of a call leave at most one appointment at
\* Cal.com and at most one row in bookings (every appointment of SpecBridge is
\* made by a createBooking event of the one call of CallIds)
C14_OneAppointmentPerCall ==
    \A c \in CallIds :
        /\ appointments <= 1
        /\ Cardinality({row \in bookings : row.call_id = c}) <= 1

----------------------------------------------------------------------------
(* Properties of the transcript sequencer, continued (SpecSequencer) *)

\* C19: the sequence numbers of the stored turns of a call are 0 .. n-1 for the
\* n turns stored, whichever inserts failed and whichever process served them
C19_GapFree ==
    \A c \in CallIds :
        StoredSequences(c)
            = 0 .. (Cardinality({t \in call_transcripts : t.call_id = c}) - 1)

----------------------------------------------------------------------------
(* Properties of the digest endpoint's guard (SpecGuard) and of overlapping  *)
(* invocations (SpecOverlap)                                                 *)

\* C17: a digest request that is not a POST with the matching secret sends no
\* email and leaves every last_digest_sent_at (table businesses) as it was
C17_UnauthorizedNoEffect ==
    [][\A method \in {"POST", "GET"}, secretOk \in BOOLEAN, window \in DigestWindows,
          loadOk \in BOOLEAN :
          (/\ ~(method = "POST" /\ secretOk)
           /\ DigestRequest(method, secretOk, window, loadOk, AllOk))
          => /\ businesses' = businesses
             /\ digestLog' = digestLog
             /\ tickLog'.sent = 0 /\ tickLog'.emails = {}]_vars

\* a POST with a wrong secret was refused while a tenant was due: nothing was
\* sent to it and it is not marked
C17_Witness ==
    /\ tickLog.status = 401
    /\ \E b \in BusinessIds :
          /\ Due(b, "previous-day")
          /\ digestLog[b] = <<>>
          /\ businesses[b].last_digest_sent_at = NullN

\* C20: ticks in the matching minute, one after the other or overlapping (both
\* load the businesses before either marks), send a due tenant one email only
C20_OverlapSendsOnce ==
    \A b \in BusinessIds : Len(digestLog[b]) <= 1

----------------------------------------------------------------------------
(* Properties of the digest loop (SpecDigest) *)

\* C21: the last-sent instant of a business is written during a tick only
\* after the transport confirmed the send of that business's digest in that
\* tick: a business that was not due, had no recipient, whose call query failed
\* or whose send failed keeps the instant it had.
C21_MarkOnlyAfterSend ==
    [][\A b \in BusinessIds :
          businesses'[b].last_digest_sent_at # businesses[b].last_digest_sent_at
          => /\ \E m \in tickLog'.emails : m.business = b
             /\ b \notin tickLog'.errors
             /\ businesses'[b].last_digest_sent_at = now]_vars

C21_Witness ==
    \E b, c \in BusinessIds :
        /\ businesses[b].last_digest_sent_at = now
        /\ \E m \in tickLog.emails : m.business = b
        /\ c \in tickLog.errors
        /\ businesses[c].last_digest_sent_at = NullN

\* C22: in one tick a failure for one business (call query, recipient lookup,
\* transport) never aborts the batch: the request ends with 200, processed is
\* the number of businesses loaded, and every other business that is due and
\* has a recipient gets its email.  A tick of SpecDigest has one fault: of the
\* businesses that are due and have a recipient, at most the one it hits goes
\* without its email.
C22_FailureDoesNotAbort ==
    [][now' = now
          => /\ tickLog'.status = 200
             /\ tickLog'.processed = Cardinality({b \in BusinessIds : Loaded(b)})
             /\ Cardinality({b \in BusinessIds :
                    /\ Due(b, "previous-day")
                    /\ resolveRecipientEmail(businesses[b], "ok") # NullT
                    /\ ~\E m \in tickLog'.emails : m.business = b}) <= 1]_vars

C22_Witness ==
    /\ tickLog.status = 200
    /\ tickLog.processed = 2
    /\ tickLog.sent = 1
    /\ tickLog.errors # {}

\* C23: every failure of a tick is collected: each due business whose digest
\* was not sent (store error, email error, missing recipient) is named by an
\* entry of the errors list of the response.
C23_FailuresCollected ==
    [][\A victim \in BusinessIds, fault \in DigestOutcomes :
          DigestRequest("POST", TRUE, "previous-day", TRUE, [AllOk EXCEPT ![victim] = fault])
          => \A b \in BusinessIds :
                /\ Due(b, "previous-day")
                /\ ~\E m \in tickLog'.emails : m.business = b
                => b \in tickLog'.errors]_vars

----------------------------------------------------------------------------
(* Properties of the event router (SpecRouter) *)

----------------------------------------------------------------------------
(* Properties of the transcript sequencer (SpecRouter, SpecConcurrent) *)

\* C25: after an end-of-call report of a call was handled, the sequencing
\* state of the process that handled it holds no entry for that call, whether
\* or not the business was found and whether or not the upsert succeeded.
C25_ReportClearsSequence ==
    [][\A p \in Procs, e \in Reports(RouterCalls, {SparseReport}),
          fault \in Faults \ {"insert"} :
          handleEndOfCallReport(p, e, fault # "lookup", fault # "write")
          => e.callId \notin DOMAIN transcriptSequences'[p]]_vars

----------------------------------------------------------------------------
(* Properties of the booking functions (SpecBridge, SpecBooking) *)

\* C27: createBooking books at the provider, then stores the booking row, then
\* confirms: a function-call response that carries the confirmation is returned
\* only when the appointment was made at the provider and a booking row that
\* references the call and that appointment is stored.
C27_ConfirmedMeansStored ==
    res = Json(200, [result |-> "Perfect! I've scheduled"])
    => /\ appointments >= 1
       /\ \E request \in calcomLog :
             request.request = BookingsEndpoint /\ request.answer = "ok"
       /\ \E b \in bookings :
             /\ b.call_id \in DOMAIN calls
             /\ b.calcom_booking_id = appointments
             /\ b.status = "confirmed"

C27_Witness ==
    /\ res = Json(200, [result |-> "Perfect! I've scheduled"])
    /\ Cardinality(bookings) = 1

----------------------------------------------------------------------------
(* Properties of the endpoints of api/calcom (SpecEndpoints) *)

\* C28: every request to the provider carries an access token that is not
\* within five minutes of its expiry: a stored token that is expired or about
\* to expire is refreshed and the new credentials are stored before the request
\* is sent; and a refresh that fails is reported as a business that is not
\* configured (not connected, or configuration incomplete), not as a generic or
\* a validation failure.
C28_FreshTokenOrNotConfigured ==
    [][\A body \in BookingBodies, answer \in CalcomAnswers :
          Validation(body) = "none" /\ book("POST", body, TRUE, answer, TRUE)
          => /\ calcomLog' # {}
                => businesses'[body.businessId].calcom_token_expires_at
                      >= now + RefreshMargin
             /\ createCalcomBooking(body.businessId, TRUE, answer) = "refreshRejected"
                => /\ calcomLog' = {}
                   /\ res' \in {BookingError("notConnected"), BookingError("noEventType")}]_vars

\* C29: checkAvailability for a business without scheduling credentials (no
\* token stored, or the lookup of the credentials returns nothing) or without
\* a default event type fails before any request is sent to the provider, and
\* the availability endpoint answers with a 400, which the 500 it answers to a
\* failure of the provider is not.
C29_NoCredentialsNotConfigured ==
    [][\A credOk \in BOOLEAN, answer \in {"ok", "empty", "unavailable"} :
          /\ availability("GET", [businessId |-> "b1", date |-> "date",
                                  timePreference |-> "any"], credOk, answer)
          /\ \/ ~credOk
             \/ businesses["b1"].calcom_access_token = NullT
             \/ businesses["b1"].calcom_event_type_id = NullN
          => /\ calcomLog' = {}
             /\ res'.status = 400]_vars

\* a body the booking endpoint is to refuse
Refusable(body) ==
    \/ body = NoBody
    \/ Undef \in {body.businessId, body.name, body.email, body.start}
    \/ body.email = "ann"
    \/ body.start \in {"malformed", "past", "now"}

\* C30: the booking endpoint refuses with a 4xx, before it sends anything to
\* the provider and before it writes a booking row, every request without
\* businessId, name, email or start, with a malformed email, or with a start
\* that is not a well-formed instant or is not strictly in the future.
C30_RefusedBeforeProvider ==
    [][\A body \in BookingBodies, answer \in CalcomAnswers :
          Refusable(body) /\ book("POST", body, TRUE, answer, TRUE)
          => /\ res'.status \in 400..499
             /\ calcomLog' = {}
             /\ bookings' = bookings
             /\ appointments' = appointments]_vars

----------------------------------------------------------------------------
(* Properties of the digest endpoint for any window (SpecGuard) *)

\* C31: no digest email is sent to a business with digest_enabled = false or
\* active = false, and its last_digest_sent_at is never written, whatever the
\* window parameter of the request.
C31_OnlyLoadedBusinesses ==
    \A b \in BusinessIds :
        ~Loaded(b) => /\ businesses[b].last_digest_sent_at = NullN
                      /\ digestLog[b] = <<>>
                      /\ ~\E m \in tickLog.emails : m.business = b

C31_Witness ==
    /\ \E b \in BusinessIds : ~Loaded(b)
    /\ tickLog.status = 200
    /\ tickLog.processed = 1
    /\ tickLog.sent = 1

----------------------------------------------------------------------------
(* Properties of the statistics of a digest (SpecStats) *)

\* the key a call is to be counted under: its intent, "unknown" when it has none
IntentOf(call) == IF call.intent \in {NullT, ""} THEN "unknown" ELSE call.intent

\* C32: for any list of calls, total is the number of calls, missed is the
\* number of calls whose status is no-answer, busy or failed (so missed <=
\* total), and the frequency map counts each call exactly once under its
\* intent, a missing intent under 'unknown' (so the counts sum to total).
C32_StatsConsistent ==
    LET callList == digestStats.calls
        stats    == digestStats.stats
    IN  stats # NoStats
        => /\ stats.total = Len(callList)
           /\ stats.missed = Cardinality({i \in 1..Len(callList) :
                                 callList[i].status \in {"no-answer", "busy", "failed"}})
           /\ stats.missed <= stats.total
           /\ \A i \in 1..Len(callList) : IntentOf(callList[i]) \in DOMAIN stats.intents
           /\ \A k \in DOMAIN stats.intents :
                 /\ "count" \in DOMAIN stats.intents[k]
                 /\ stats.intents[k].count =
                       Cardinality({i \in 1..Len(callList) : IntentOf(callList[i]) = k})

----------------------------------------------------------------------------
(* Properties of the mark of a sent digest (SpecDigest) *)

\* C33: whenever a tick sends a digest email to a tenant and counts it in
\* sent, last_digest_sent_at of the tenant holds the instant of the tick by the
\* end of the tick, so that the next tick of the same minute finds it.
C33_SentMeansMarked ==
    [][\A b \in BusinessIds :
          (/\ now' = now
           /\ tickLog'.sent > 0
           /\ \E m \in tickLog'.emails : m.business = b)
          => businesses'[b].last_digest_sent_at = now]_vars

----------------------------------------------------------------------------
(* Properties of the window parameter (SpecGuard) *)

\* the windows getDigestRangeUtc recognises besides the previous local day
AlternateWindows == {"today", "today-so-far", "last24", "last-24-hours"}

\* C34: a request whose window is not one of the alternate windows reports on
\* the previous local day, and sends a digest only to businesses whose local
\* send time matches and that were not sent one on this local day.
C34_PreviousDayIsGuarded ==
    [][\A window \in DigestWindows \ AlternateWindows :
          DigestRequest("POST", TRUE, window, TRUE, AllOk)
          => \A b \in BusinessIds :
                (\E m \in tickLog'.emails : m.business = b)
                => shouldSendDigestNow(businesses[b], TimeZoneOf(b))]_vars

\* C35: a request for an alternate window leaves last_digest_sent_at of every
\* business unchanged.
C35_AlternateWindowDoesNotMark ==
    [][\A window \in DigestWindows \cap AlternateWindows :
          DigestRequest("POST", TRUE, window, TRUE, AllOk)
          => \A b \in BusinessIds :
                businesses'[b].last_digest_sent_at = businesses[b].last_digest_sent_at]_vars

----------------------------------------------------------------------------
(* Properties of the stored turns (SpecSequencer) *)

\* C36: while the store is available, every transcript event handled for a
\* call of a mapped business results in a stored turn: the insert of a handler
\* that the store accepts to serve adds a row to call_transcripts, also after
\* the call's end-of-call report or in another process.
C36_NoTurnLost ==
    [][\A h \in DOMAIN handlers :
          TranscriptInsert(h, TRUE)
          => Cardinality(call_transcripts') = Cardinality(call_transcripts) + 1]_vars

----------------------------------------------------------------------------
(* Properties of the booking bridge's failures (SpecBridge) *)

\* C37: whenever a createBooking function call is answered with the error
\* "Unable to create booking", no appointment was created at the provider for
\* that request: the provider's appointments are those of before the request.
C37_ErrorMeansNoAppointment ==
    [][res' = Json(200, UnableToCreate) => appointments' = appointments]_vars

----------------------------------------------------------------------------
(* Properties of the token refresh (SpecEndpoints) *)

\* C38: a request to the booking or availability endpoint, with the token
\* refresh it may perform, changes no column of a business but the access
\* token, the refresh token and the expiry: the default event type id stays.
C38_RefreshKeepsEventType ==
    [][\A b \in BusinessIds :
          businesses'[b] =
              [businesses[b] EXCEPT
                  !.calcom_access_token = businesses'[b].calcom_access_token,
                  !.calcom_refresh_token = businesses'[b].calcom_refresh_token,
                  !.calcom_token_expires_at = businesses'[b].calcom_token_expires_at]]_vars

----------------------------------------------------------------------------
(* Properties of the tenant of a call (SpecTenancy) *)

\* C39: a call belongs to one business for its whole life: once the row of a
\* provider call id exists, no later event of that call id changes its
\* business_id, whatever number the event names.
C39_TenantNeverChanges ==
    [][\A c \in DOMAIN calls :
          c \in DOMAIN calls' /\ calls'[c].business_id = calls[c].business_id]_vars

====
